---- MODULE Spec2Model ----
(***************************************************************************)
(* Model of the Gemini client of the AIEngineer workbench                  *)
(* (src/AIEngineer/gemini.py, class GoogleGenerativeAi): the retry loop of *)
(* ask / ask_async and the chat session with its restart-on-error logic.   *)
(*                                                                         *)
(* Names the file uses without importing them (requests, RpcError, grpc,   *)
(* normalize_answer, __root__, ...) are taken to be bound to the objects   *)
(* their names denote; normalize_answer is src/string/ai_string_utils.py.  *)
(***************************************************************************)
EXTENDS Integers, Sequences, FiniteSets, TLC

(***************************************************************************)
(* Program constants (gemini.py:50-56) and literals.                       *)
(***************************************************************************)
NETWORK_ERROR_MAX_ATTEMPTS == 5
SERVICE_UNAVAILABLE_MAX_ATTEMPTS == 3
INVALID_INPUT_MAX_ATTEMPTS == 3
INITIAL_RETRY_SLEEP_SECONDS == 2
NETWORK_RETRY_SLEEP_SECONDS == 120
SERVICE_RETRY_SLEEP_SECONDS_BASE == 10
QUOTA_EXHAUSTED_SLEEP_SECONDS == 14400
DefaultAttempts == 15
InputRetrySleep == 5
DeadlineSleep == 300

(***************************************************************************)
(* Bounds of the model.                                                    *)
(***************************************************************************)
MaxAttempts == 6
MaxDepth == 2
MaxSends == 2
MaxHandles == 3
MaxStoreOps == 2
MaxOps == 3
MaxBuilds == 2
MaxProviderCalls == 2
MaxThreadEvents == 2
MaxFrameAttempts == 2
MaxDescribes == 1

(***************************************************************************)
(* Texts are sequences of tokens: "sp" a blank, "nl" a newline, "fence" a  *)
(* triple backquote, "text" the word text, "a" any other word.             *)
(***************************************************************************)
Whitespace == {"sp", "nl"}

Texts ==
  { <<"a">>,
    <<"sp", "a", "nl">>,
    <<"fence", "nl", "a", "nl", "fence">>,
    <<"fence", "nl", "fence">>,
    <<"text", "nl", "a">> }

RECURSIVE lstrip(_)
lstrip(t) ==
  IF t # <<>> /\ Head(t) \in Whitespace THEN lstrip(Tail(t)) ELSE t

RECURSIVE rstrip(_)
rstrip(t) ==
  IF t # <<>> /\ t[Len(t)] \in Whitespace
  THEN rstrip(SubSeq(t, 1, Len(t) - 1))
  ELSE t

strip(t) == rstrip(lstrip(t))

NewlineAt(t) == { i \in 1..Len(t) : t[i] = "nl" }

Min(S) == CHOOSE x \in S : \A y \in S : x <= y
Max(S) == CHOOSE x \in S : \A y \in S : x >= y

normalize_answer(text) ==
  LET s == strip(text)
      fenced == s # <<>> /\ s[1] = "fence" /\ s[Len(s)] = "fence"
      nls == NewlineAt(s)
  IN  IF fenced /\ nls # {}
      THEN SubSeq(s, Min(nls) + 1, Max(nls) - 1)
      ELSE IF Len(s) >= 2 /\ s[1] = "text" /\ s[2] = "nl"
           THEN strip(SubSeq(s, 3, Len(s)))
           ELSE strip(s)

RECURSIVE Pow(_, _)
Pow(b, e) == IF e = 0 THEN 1 ELSE b * Pow(b, e - 1)

(***************************************************************************)
(* What one provider call can do: return a response with a text, return a  *)
(* response without text, or raise.  Exceptions are named by their class.  *)
(***************************************************************************)
Exceptions ==
  { "RequestException", "GatewayTimeout", "ServiceUnavailable",
    "ResourceExhausted", "DefaultCredentialsError", "RefreshError",
    "ValueError", "TypeError", "InvalidArgumentTokens", "InvalidArgument",
    "RpcDeadlineExceeded", "RpcError", "Exception" }

Outcomes ==
  [kind : {"text"}, text : Texts] \cup [kind : {"empty"} \cup Exceptions]

(***************************************************************************)
(* The except clause of ask / ask_async that catches an exception         *)
(* (clauses are tried in source order).                                    *)
(***************************************************************************)
\* AskClause with the authentication errors caught by the input clause.
AskClause_authAsInput(ex) ==
  CASE ex = "RequestException" -> "network"
    [] ex \in {"GatewayTimeout", "ServiceUnavailable"} -> "service"
    [] ex = "ResourceExhausted" -> "quota"
    [] ex \in {"ValueError", "TypeError",
               "DefaultCredentialsError", "RefreshError"} -> "input"
    [] ex \in {"InvalidArgumentTokens", "InvalidArgument",
               "RpcDeadlineExceeded", "RpcError"} -> "api"
    [] OTHER -> "unexpected"

AskClause(ex) ==
  CASE ex = "RequestException" -> "network"
    [] ex \in {"GatewayTimeout", "ServiceUnavailable"} -> "service"
    [] ex = "ResourceExhausted" -> "quota"
    [] ex \in {"DefaultCredentialsError", "RefreshError"} -> "auth"
    [] ex \in {"ValueError", "TypeError"} -> "input"
    [] ex \in {"InvalidArgumentTokens", "InvalidArgument",
               "RpcDeadlineExceeded", "RpcError"} -> "api"
    [] OTHER -> "unexpected"

Clauses == {"empty", "network", "service", "quota", "auth", "input", "api", "unexpected"}


(***************************************************************************)
(* Values a call returns: None or a string.                                *)
(***************************************************************************)
NoneResult == [kind |-> "None", val |-> <<>>]
Str(t) == [kind |-> "str", val |-> t]
QuotaMarker == Str(<<"ResourceExhausted">>)

(***************************************************************************)
(* Request content: the labeled context part, if any, then the question.   *)
(* A context is a list of strings; NoContext is the absent context.        *)
(***************************************************************************)
NoContext == <<>>

\* The (q, context) arguments ask and chat are called with.
Requests ==
  { [q |-> "Hello", context |-> NoContext],
    [q |-> "How are you?", context |-> <<"fact A", "fact B">>] }

RECURSIVE Join(_)
Join(strs) ==
  IF Len(strs) <= 1 THEN strs
  ELSE <<Head(strs), "nl">> \o Join(Tail(strs))

\* The part f"Kontekst:\n{context_str}\n\n" (the label is Cyrillic in the source).
ContextPart(context) == <<"Kontekst:", "nl">> \o Join(context) \o <<"nl", "nl">>

BuildParts(q, context) ==
  IF context # NoContext
  THEN << ContextPart(context), <<q>> >>
  ELSE << <<q>> >>

(***************************************************************************)
(* Sessions.  A GoogleGenerativeAi object is a session; two are modelled.  *)
(* chat_history is a class attribute (one list shared by every object)     *)
(* until an object assigns a list of its own to self.chat_history.         *)
(***************************************************************************)
Sessions == {"s1", "s2"}

\* A system instruction is a text; NoInstruction stands for None.
NoInstruction == <<>>
SysInstructions == {NoInstruction, <<"be brief">>}

ChatReplies == { <<"a">> }

\* chat_session_name: the class default (gs.now at import) and the name the
\* chat dialog passes; NoName is the default argument ''.
ImportName == "import_time"
SessionNames == {"freecad_chat"}
NoName == ""

UserMessage(parts) == [role |-> "user", parts |-> parts]
ModelMessage(text) == [role |-> "model", parts |-> <<text>>]

\* The two messages chat appends after a reply with text.
Exchange(parts, text) == << UserMessage(parts), ModelMessage(text) >>

DefaultPath == [name |-> ".", ts |-> 0]
FilePaths == [name : {ImportName} \cup SessionNames, ts : 1..Cardinality(Sessions)]
Absent == [state |-> "absent", data |-> <<>>]

\* history.json in a chat data folder, the file _load_chat_history reads
\* when it is given a folder.
FolderFile == [name |-> "history", ts |-> 0]
AllPaths == FilePaths \cup {FolderFile}

NoHandle == [id |-> 0, replayed |-> <<>>, history |-> <<>>]

\* The chat call in flight: its arguments, its position, and a record of
\* what it has done (provider outcomes, sleeps, restarts).
NoCall ==
  [pc |-> "idle", self |-> "s1", q |-> "Hello", name |-> NoName,
   context |-> NoContext, depth |-> 0, calls |-> 0, restarts |-> 0,
   slept |-> <<>>, trail |-> <<>>, failed_on |-> 0, on |-> 0,
   instruction |-> NoInstruction, result |-> NoneResult]

NoLog == [ok |-> FALSE, sent |-> <<>>]

(***************************************************************************)
(* The API key and the client paths that use it: the chat dialog, the      *)
(* Ask AI command and AIClient.ask.                                        *)
(***************************************************************************)
NoKey == ""
ApiKeys == {NoKey, "key"}
Providers == {"ollama", "openai", "gemini"}

\* The chat dialog before it is opened: no llm, and the send button as the
\* form makes it.
NoDialog == [open |-> FALSE, llm |-> "None", send_btn |-> TRUE]

\* One provider call: the path that made it and the key it was made with.
ProviderCall(path, prov, key) == [path |-> path, provider |-> prov, key |-> key]

(***************************************************************************)
(* The request content of describe_image: the prompt, if any, as a text    *)
(* part, then what genai.upload_file_async(...) evaluates to.  The call is *)
(* not awaited: where the library has the function the part is the         *)
(* coroutine object it returns, and where it has not the attribute lookup  *)
(* raises and no content is built.                                         *)
(***************************************************************************)
Prompts == {"", "Hello", "How are you?", "What is this?"}
Contexts ==
  { NoContext, <<"fact A">>, <<"fact A", "fact B">>, <<"fact B", "fact A">>, <<"">> }
Images == {"view.png", "photo.jpg"}
UploadOutcomes == {"no_attribute", "coroutine"}

Raised == [kind |-> "raised", val |-> <<>>]
Parts(content) == [kind |-> "parts", val |-> content]

TextParts(prompt) ==
  IF prompt # "" THEN << [kind |-> "text", val |-> prompt] >> ELSE <<>>

DescribeImageParts(prompt, image, upload) ==
  IF upload = "no_attribute"
  THEN Raised
  ELSE Parts(TextParts(prompt) \o << [kind |-> "coroutine", val |-> image] >>)

NoBuild ==
  [fn |-> "none", q |-> "", context |-> NoContext, image |-> "none",
   upload |-> "none"]

BuildInputs ==
  { [NoBuild EXCEPT !.fn = "chat", !.q = q, !.context = c] :
      q \in Prompts, c \in Contexts }
  \cup
  { [NoBuild EXCEPT !.fn = "describe_image", !.q = q, !.image = i, !.upload = u] :
      q \in Prompts, i \in Images, u \in UploadOutcomes }

NoOp == [name |-> "none", self |-> "s1", arg |-> <<>>, value |-> TRUE, after |-> "none"]

VARIABLES
  ask_pc,           \* "idle", "loop" (inside the for loop) or "done"
  ask_mode,         \* "ask" or "ask_async"
  attempts,         \* the attempts argument
  clean_response,   \* the clean_response argument
  content_to_send,  \* the request content built before the loop
  attempt,          \* the loop index of the next iteration
  calls,            \* provider calls made by this invocation
  failures,         \* per except clause, the iterations it has handled
  last_outcome,     \* kind of the last provider outcome
  response_text,    \* text of the last response that had one
  ask_result,       \* the returned value, once done
  ask_exit,         \* how the invocation ended: "return", "break", "exhausted"
  last_sleep,       \* seconds of the most recent backoff sleep (0: none yet)
  sleeps            \* backoff sleeps taken by this invocation

VARIABLES
  constructed,         \* the sessions whose __init__ has run
  system_instruction,  \* per session
  timestamp,           \* per session, gs.now at construction (0: none yet)
  chat_session_name,   \* per session; ImportName is the class default
  cls_chat_history,    \* the list held by the class attribute chat_history
  own_chat_history,    \* per session: [own, list], own = instance attribute set
  chat_handle,         \* per session, self._chat: [id, replayed, history]
  next_handle,         \* id of the next provider handle to be created
  history_json_file,   \* per session; DefaultPath is the class default Path()
  files,               \* the history directory: path -> [state, data]
  call,                \* the chat call in flight
  rival,               \* a second chat call, entered while the first awaits
  sends,               \* chat calls made so far
  quota_handle,        \* per session, id of the handle that last got a quota error
  log,                 \* per session: [ok, sent], the exchanges sent while
                       \* nothing but successful sends has happened to it
  op,                  \* the operation last entered, its argument and value,
                       \* and the operation it came after on the same session
  store_ops            \* save, export, load and clear operations made so far

VARIABLES
  builder,             \* the arguments a request is built from
  built,               \* what each build of the request from them gave
  described            \* the value describe_image last returned

VARIABLES
  api_key,             \* the API key in the settings ("" when none is set)
  provider,            \* the provider in the settings
  dialog,              \* the chat dialog: [open, llm, send_btn]
  provider_calls,      \* the provider calls the client paths have made
  answer               \* what the last send or ask of a client path came to

VARIABLES
  sleeper,             \* the backoff sleep in progress on the thread, if any
  handled,             \* host events handled so far
  other_sends          \* sends of another session started and completed so far

VARIABLES
  project_json,        \* the links stored in project.json: image -> text file
  project_data,        \* per module: its AIProject instance, [loaded, links]
  text_files,          \* the text files in the data directory
  proj_op              \* the link, unlink or delete handler last run

askVars ==
  << ask_pc, ask_mode, attempts, clean_response, content_to_send, attempt,
     calls, failures, last_outcome, response_text, ask_result, ask_exit,
     last_sleep, sleeps >>

chatVars ==
  << constructed, system_instruction, timestamp, chat_session_name,
     cls_chat_history, own_chat_history, chat_handle, next_handle,
     history_json_file, files, call, rival, sends, quota_handle, log, op,
     store_ops >>

buildVars == << builder, built, described >>

keyVars == << api_key, provider, dialog, provider_calls, answer >>

threadVars == << sleeper, handled, other_sends >>

\* The state outside the GoogleGenerativeAi objects and their calls.
projVars == << project_json, project_data, text_files, proj_op >>

hostVars == << buildVars, keyVars, threadVars, projVars >>

vars == << askVars, chatVars, hostVars >>

AttemptBudgets == (0..MaxAttempts) \cup {DefaultAttempts}

NoFailures == [c \in Clauses |-> 0]

AskInit ==
  /\ ask_pc = "idle"
  /\ ask_mode = "ask"
  /\ attempts = DefaultAttempts
  /\ clean_response = TRUE
  /\ content_to_send = <<>>
  /\ attempt = 0
  /\ calls = 0
  /\ failures = NoFailures
  /\ last_outcome = "none"
  /\ response_text = <<>>
  /\ ask_result = NoneResult
  /\ ask_exit = "none"
  /\ last_sleep = 0
  /\ sleeps = 0

ChatInit ==
  /\ constructed = {}
  /\ system_instruction = [s \in Sessions |-> NoInstruction]
  /\ timestamp = [s \in Sessions |-> 0]
  /\ chat_session_name = [s \in Sessions |-> ImportName]
  /\ cls_chat_history = <<>>
  /\ own_chat_history = [s \in Sessions |-> [own |-> FALSE, list |-> <<>>]]
  /\ chat_handle = [s \in Sessions |-> NoHandle]
  /\ next_handle = 1
  /\ history_json_file = [s \in Sessions |-> DefaultPath]
  /\ files = [p \in AllPaths |-> Absent]
  /\ call = NoCall
  /\ rival = NoCall
  /\ sends = 0
  /\ quota_handle = [s \in Sessions |-> 0]
  /\ log = [s \in Sessions |-> NoLog]
  /\ op = NoOp
  /\ store_ops = 0

BuildInit ==
  /\ builder = NoBuild
  /\ built = <<>>
  /\ described = NoneResult

KeyInit ==
  /\ api_key = NoKey
  /\ provider = "gemini"
  /\ dialog = NoDialog
  /\ provider_calls = <<>>
  /\ answer = "none"

\* No backoff in progress.
NoSleeper ==
  [fn |-> "none", clause |-> "none", attempt |-> 0, seconds |-> 0,
   wait |-> "none", runner |-> "none"]

ThreadInit ==
  /\ sleeper = NoSleeper
  /\ handled = 0
  /\ other_sends = 0

\* The text files of the data directory and the modules that make an
\* AIProject of their own when they are imported.
TextFiles == {"prompt_1.md", "prompt_2.md"}
NoLink == "none"
Modules == {"content_manager", "link_content_dialog", "ai_engineer_workbench"}

\* {"links": {}}: what _load returns when there is no project.json.
NoLinks == [i \in Images |-> NoLink]

NoProjOp ==
  [name |-> "none", module |-> "none", image |-> "none", text |-> "none",
   removed |-> FALSE]

ProjectInit ==
  /\ project_json = NoLinks
  /\ project_data = [m \in Modules |-> [loaded |-> FALSE, links |-> NoLinks]]
  /\ text_files = TextFiles
  /\ proj_op = NoProjOp

Init == AskInit /\ ChatInit /\ BuildInit /\ KeyInit /\ ThreadInit /\ ProjectInit

(***************************************************************************)
(* ask and ask_async: the retry loop.                                      *)
(***************************************************************************)

\* NetworkGivesUp with the bound of the service clause in its place.
NetworkGivesUp_serviceBound(k) == k >= SERVICE_UNAVAILABLE_MAX_ATTEMPTS

\* The attempt-limit test of a retrying except clause, at loop index k.
NetworkGivesUp(k) == k >= NETWORK_ERROR_MAX_ATTEMPTS

ServiceGivesUp(k) == k >= SERVICE_UNAVAILABLE_MAX_ATTEMPTS

InputGivesUp(k) == k >= INVALID_INPUT_MAX_ATTEMPTS

\* Backoff with the service clause's sleep lacking the constant base.
Backoff_serviceWithoutBase(clause, k) ==
  CASE clause = "empty" -> Pow(INITIAL_RETRY_SLEEP_SECONDS, k)
    [] clause = "network" -> NETWORK_RETRY_SLEEP_SECONDS
    [] clause = "service" -> Pow(INITIAL_RETRY_SLEEP_SECONDS, k)
    [] clause = "quota" -> QUOTA_EXHAUSTED_SLEEP_SECONDS
    [] clause = "input" -> InputRetrySleep
    [] OTHER -> 0

\* The backoff a clause sleeps before `continue`, at loop index k.
Backoff(clause, k) ==
  CASE clause = "empty" -> Pow(INITIAL_RETRY_SLEEP_SECONDS, k)
    [] clause = "network" -> NETWORK_RETRY_SLEEP_SECONDS
    [] clause = "service" ->
         Pow(INITIAL_RETRY_SLEEP_SECONDS, k) + SERVICE_RETRY_SLEEP_SECONDS_BASE
    [] clause = "quota" -> QUOTA_EXHAUSTED_SLEEP_SECONDS
    [] clause = "input" -> InputRetrySleep
    [] OTHER -> 0

\* Disposition with a give-up bound on the empty-response branch.
Disposition_emptyGivesUp(mode, clause, k) ==
  CASE clause = "empty" -> IF InputGivesUp(k) THEN "break" ELSE "retry"
    [] clause = "network" -> IF NetworkGivesUp(k) THEN "break" ELSE "retry"
    [] clause = "service" -> IF ServiceGivesUp(k) THEN "break" ELSE "retry"
    [] clause = "quota" -> IF mode = "ask" THEN "return_marker" ELSE "retry"
    [] clause = "input" -> IF InputGivesUp(k) THEN "break" ELSE "retry"
    [] OTHER -> "return_none"

\* What an iteration that got no text does next: "retry" (sleep and
\* continue), "break" (leave the loop, return None), "return_none", or
\* "return_marker" (the sync ask's answer to ResourceExhausted).
Disposition(mode, clause, k) ==
  CASE clause = "empty" -> "retry"
    [] clause = "network" -> IF NetworkGivesUp(k) THEN "break" ELSE "retry"
    [] clause = "service" -> IF ServiceGivesUp(k) THEN "break" ELSE "retry"
    [] clause = "quota" -> IF mode = "ask" THEN "return_marker" ELSE "retry"
    [] clause = "input" -> IF InputGivesUp(k) THEN "break" ELSE "retry"
    [] OTHER -> "return_none"

\* The value returned for a response with text.
SuccessValue(clean, text) == IF clean THEN Str(normalize_answer(text)) ELSE Str(text)

OutcomeClause(o) == IF o.kind = "empty" THEN "empty" ELSE AskClause(o.kind)

\* ask / ask_async is entered: the content is built, the loop starts.  The
\* call is made on a client object of its own, as the Ask AI command does,
\* while no chat session exists.
AskStart ==
  /\ ask_pc = "idle"
  /\ constructed = {}
  /\ \E m \in {"ask", "ask_async"}, n \in AttemptBudgets, c \in BOOLEAN,
        r \in Requests :
       /\ ask_mode' = m
       /\ attempts' = n
       /\ clean_response' = c
       /\ content_to_send' = BuildParts(r.q, r.context)
  /\ ask_pc' = "loop"
  /\ UNCHANGED << attempt, calls, failures, last_outcome, response_text,
                  ask_result, ask_exit, last_sleep, sleeps >>
  /\ UNCHANGED chatVars
  /\ UNCHANGED hostVars

AskFinish(value, how) ==
  /\ ask_pc' = "done"
  /\ ask_result' = value
  /\ ask_exit' = how
  /\ UNCHANGED << attempt, last_sleep, sleeps >>

\* One iteration of the for loop: the provider call and its handling.
AskAttempt ==
  /\ ask_pc = "loop"
  /\ attempt < attempts
  /\ \E o \in Outcomes :
       /\ calls' = calls + 1
       /\ last_outcome' = o.kind
       /\ IF o.kind = "text"
          THEN /\ response_text' = o.text
               /\ AskFinish(SuccessValue(clean_response, o.text), "return")
               /\ UNCHANGED failures
          ELSE LET clause == OutcomeClause(o)
                   what == Disposition(ask_mode, clause, attempt)
               IN  /\ failures' = [failures EXCEPT ![clause] = @ + 1]
                   /\ UNCHANGED response_text
                   /\ CASE what = "retry" ->
                             /\ last_sleep' = Backoff(clause, attempt)
                             /\ sleeps' = sleeps + 1
                             /\ attempt' = attempt + 1
                             /\ UNCHANGED << ask_pc, ask_result, ask_exit >>
                        [] what = "break" -> AskFinish(NoneResult, "break")
                        [] what = "return_marker" -> AskFinish(QuotaMarker, "return")
                        [] OTHER -> AskFinish(NoneResult, "return")
  /\ UNCHANGED << ask_mode, attempts, clean_response, content_to_send >>
  /\ UNCHANGED chatVars
  /\ UNCHANGED hostVars

\* AskLoopExhausted with the loop started over instead of the return.
AskLoopExhausted_startsOver ==
  /\ ask_pc = "loop"
  /\ attempt >= attempts
  /\ calls <= MaxAttempts
  /\ attempt' = 0
  /\ UNCHANGED << ask_pc, ask_result, ask_exit, last_sleep, sleeps >>
  /\ UNCHANGED << ask_mode, attempts, clean_response, content_to_send,
                  calls, failures, last_outcome, response_text >>
  /\ UNCHANGED chatVars
  /\ UNCHANGED hostVars

\* The for loop ran out of iterations: the final `return None`.
AskLoopExhausted ==
  /\ ask_pc = "loop"
  /\ attempt >= attempts
  /\ AskFinish(NoneResult, "exhausted")
  /\ UNCHANGED << ask_mode, attempts, clean_response, content_to_send,
                  calls, failures, last_outcome, response_text >>
  /\ UNCHANGED chatVars
  /\ UNCHANGED hostVars

\* The caller takes the returned value; the invocation's locals are gone.
AskReturn ==
  /\ ask_pc = "done"
  /\ ask_pc' = "idle"
  /\ ask_mode' = "ask"
  /\ attempts' = DefaultAttempts
  /\ clean_response' = TRUE
  /\ content_to_send' = <<>>
  /\ attempt' = 0
  /\ calls' = 0
  /\ failures' = NoFailures
  /\ last_outcome' = "none"
  /\ response_text' = <<>>
  /\ ask_result' = NoneResult
  /\ ask_exit' = "none"
  /\ last_sleep' = 0
  /\ sleeps' = 0
  /\ UNCHANGED chatVars
  /\ UNCHANGED hostVars

AskNext ==
  \/ AskStart
  \/ AskAttempt
  \/ AskLoopExhausted
  \/ AskReturn

(***************************************************************************)
(* The session: construction, restart, saving.                             *)
(***************************************************************************)

\* self.chat_history: the instance attribute if set, else the class attribute.
chat_history(s) ==
  IF own_chat_history[s].own THEN own_chat_history[s].list ELSE cls_chat_history

\* The record of an operation as it is entered.
Entered(name, s, arg) ==
  [name |-> name, self |-> s, arg |-> arg, value |-> TRUE,
   after |-> IF op.self = s THEN op.name ELSE "other"]

\* StartChatHistory without the test that a system instruction is set.
StartChatHistory_unconditional(initial_history, initial_system_instruction) ==
  <<UserMessage(<<initial_system_instruction>>)>> \o initial_history

\* The history _start_chat hands to model.start_chat: the system instruction
\* goes in front as a user message unless the first message holds it.
StartChatHistory(initial_history, initial_system_instruction) ==
  IF /\ initial_system_instruction # NoInstruction
     /\ \/ initial_history = <<>>
        \/ /\ initial_history[1].role = "user"
           /\ \A i \in 1..Len(initial_history[1].parts) :
                initial_history[1].parts[i] # initial_system_instruction
  THEN <<UserMessage(<<initial_system_instruction>>)>> \o initial_history
  ELSE initial_history

\* _start_chat: a new provider handle holding the replayed history.
NewHandle(initial_history, initial_system_instruction) ==
  [id |-> next_handle,
   replayed |-> StartChatHistory(initial_history, initial_system_instruction),
   history |-> StartChatHistory(initial_history, initial_system_instruction)]

\* NewInstruction without the test for None.
NewInstruction_alwaysNew(s, new_system_instruction) == new_system_instruction

\* The system instruction start_new_chat_session leaves in force.
NewInstruction(s, new_system_instruction) ==
  IF new_system_instruction # NoInstruction
  THEN new_system_instruction
  ELSE system_instruction[s]

\* start_new_chat_session that leaves self.chat_history as it is.
start_new_chat_session_keepsHistory(s, new_system_instruction) ==
  /\ system_instruction' =
       [system_instruction EXCEPT ![s] = NewInstruction(s, new_system_instruction)]
  /\ UNCHANGED own_chat_history
  /\ chat_handle' =
       [chat_handle EXCEPT
          ![s] = NewHandle(<<>>, NewInstruction(s, new_system_instruction))]
  /\ next_handle' = next_handle + 1

\* start_new_chat_session(new_system_instruction), no initial history.
start_new_chat_session(s, new_system_instruction) ==
  /\ system_instruction' =
       [system_instruction EXCEPT ![s] = NewInstruction(s, new_system_instruction)]
  /\ own_chat_history' = [own_chat_history EXCEPT ![s] = [own |-> TRUE, list |-> <<>>]]
  /\ chat_handle' =
       [chat_handle EXCEPT
          ![s] = NewHandle(<<>>, NewInstruction(s, new_system_instruction))]
  /\ next_handle' = next_handle + 1

\* gs.now at a construction: the second of the latest construction so far,
\* or a later one.
Latest == Max({timestamp[s] : s \in Sessions})
Clock == {Max({1, Latest}), Latest + 1}

\* Objects are named in the order they are made.
NextSession ==
  IF "s1" \notin constructed THEN {"s1"}
  ELSE IF "s2" \notin constructed THEN {"s2"} ELSE {}

\* __init__: the object's attributes and its first provider handle.
Construct ==
  /\ call.pc = "idle"
  /\ ask_pc = "idle"
  /\ next_handle <= MaxHandles
  /\ \E s \in NextSession, si \in SysInstructions, t \in Clock :
       /\ constructed' = constructed \cup {s}
       /\ system_instruction' = [system_instruction EXCEPT ![s] = si]
       /\ timestamp' = [timestamp EXCEPT ![s] = t]
       /\ chat_handle' = [chat_handle EXCEPT ![s] = NewHandle(<<>>, si)]
       /\ next_handle' = next_handle + 1
       /\ log' = [log EXCEPT ![s] = [ok |-> TRUE, sent |-> <<>>]]
       /\ op' = Entered("construct", s, si)
  /\ UNCHANGED << chat_session_name, cls_chat_history, own_chat_history,
                  history_json_file, files, call, sends, quota_handle >>
  /\ UNCHANGED store_ops
  /\ UNCHANGED rival
  /\ UNCHANGED askVars
  /\ UNCHANGED hostVars

\* A caller's start_new_chat_session.
Reset ==
  /\ call.pc = "idle"
  /\ next_handle <= MaxHandles
  /\ \E s \in constructed, si \in SysInstructions :
       /\ start_new_chat_session(s, si)
       /\ log' = [log EXCEPT ![s] = NoLog]
       /\ op' = Entered("reset", s, si)
  /\ UNCHANGED << constructed, timestamp, chat_session_name, cls_chat_history,
                  history_json_file, files, call, sends, quota_handle >>
  /\ UNCHANGED store_ops
  /\ UNCHANGED rival
  /\ UNCHANGED askVars
  /\ UNCHANGED hostVars

(***************************************************************************)
(* _save_chat_history: the record path is made of the session name and the *)
(* timestamp; mkdir or the write may fail.  A write that fails after open  *)
(* (mode 'w' truncates) leaves a partial file.                             *)
(***************************************************************************)
IoOutcomes == {"ok", "mkdir_failed", "open_failed", "write_failed"}

RecordPath(name, ts) == [name |-> name, ts |-> ts]

Written(old, data, io) ==
  CASE io = "ok" -> [state |-> "ok", data |-> data]
    [] io = "write_failed" -> [state |-> "corrupt", data |-> <<>>]
    [] OTHER -> old

save_chat_history(s, name, data, io) ==
  LET path == RecordPath(name, timestamp[s])
  IN  /\ history_json_file' = [history_json_file EXCEPT ![s] = path]
      /\ files' = [files EXCEPT ![path] = Written(@, data, io)]

Exists(path) == path = DefaultPath \/ files[path].state # "absent"

\* j_loads: the decoded transcript, or None.
j_loads(path) ==
  IF path # DefaultPath /\ files[path].state = "ok"
  THEN [kind |-> "list", val |-> files[path].data]
  ELSE NoneResult

\* The loaded history without a first user message that holds the system
\* instruction.
StripInstruction(history_to_load, instruction) ==
  IF /\ instruction # NoInstruction
     /\ history_to_load # <<>>
     /\ history_to_load[1].role = "user"
     /\ \E i \in 1..Len(history_to_load[1].parts) :
          history_to_load[1].parts[i] = instruction
  THEN Tail(history_to_load)
  ELSE history_to_load

\* A caller's _save_chat_history: the chat dialog saves on close when the
\* transcript holds messages.
Save ==
  /\ call.pc = "idle"
  /\ store_ops < MaxStoreOps
  /\ sends + store_ops < MaxOps
  /\ store_ops' = store_ops + 1
  /\ \E s \in constructed, io \in IoOutcomes :
       /\ chat_history(s) # <<>>
       /\ save_chat_history(s, chat_session_name[s], chat_history(s), io)
       /\ op' = [Entered("save", s, <<>>) EXCEPT !.value = (io = "ok")]
  /\ UNCHANGED << constructed, system_instruction, timestamp, chat_session_name,
                  cls_chat_history, own_chat_history, chat_handle, next_handle,
                  call, sends, quota_handle, log >>
  /\ UNCHANGED rival
  /\ UNCHANGED askVars
  /\ UNCHANGED hostVars

\* What a session with the given instruction holds, and saves, after it
\* has loaded a record.
Reloaded(record, instruction) ==
  StartChatHistory(StripInstruction(record, instruction), instruction)

\* The history directory outlives the process.  A record left by an earlier
\* run is one exchange (without context) saved by chat, possibly reloaded and
\* saved again by one or two later sessions, each under its own system
\* instruction.
EarlierInstructions == SysInstructions \cup { <<"be formal">> }

EarlierRecords ==
  { Reloaded(Reloaded(Exchange(BuildParts(r.q, r.context), text), a), b) :
      r \in {q \in Requests : q.context = NoContext}, text \in ChatReplies,
      a \in EarlierInstructions, b \in EarlierInstructions }

\* A record the program saved, in this run or an earlier one, is put into a
\* chat data folder as history.json, for a session to load.
Export ==
  /\ call.pc = "idle"
  /\ constructed # {}
  /\ store_ops < MaxStoreOps
  /\ sends + store_ops < MaxOps
  /\ store_ops' = store_ops + 1
  /\ \E record \in { files[p] : p \in FilePaths }
                    \cup { [state |-> "ok", data |-> d] : d \in EarlierRecords } :
       /\ record.state # "absent"
       /\ files[FolderFile] # record
       /\ files' = [files EXCEPT ![FolderFile] = record]
  /\ op' = Entered("export", op.self, <<>>)
  /\ UNCHANGED << constructed, system_instruction, timestamp, chat_session_name,
                  cls_chat_history, own_chat_history, chat_handle, next_handle,
                  history_json_file, call, sends, quota_handle, log >>
  /\ UNCHANGED rival
  /\ UNCHANGED askVars
  /\ UNCHANGED hostVars

(***************************************************************************)
(* _load_chat_history.  Path() is the current directory: it exists and     *)
(* cannot be read as a file.  j_loads gives None for a file it cannot      *)
(* decode.  json.dump and json.load of lists of records of strings give    *)
(* back the value that was written.                                        *)
(***************************************************************************)
\* The file _load_chat_history reads: history.json of the folder when a
\* folder is given, else the path of the last save.
TargetFile(s, chat_data_folder) ==
  IF chat_data_folder THEN FolderFile ELSE history_json_file[s]

\* _load_chat_history.  The list assigned to self.chat_history is the one
\* _start_chat receives and inserts the system instruction into.
Load ==
  /\ call.pc = "idle"
  /\ store_ops < MaxStoreOps
  /\ sends + store_ops < MaxOps
  /\ store_ops' = store_ops + 1
  /\ next_handle <= MaxHandles
  /\ \E s \in constructed, chat_data_folder \in BOOLEAN :
       LET target == TargetFile(s, chat_data_folder)
           loaded == j_loads(target)
           stripped == StripInstruction(loaded.val, system_instruction[s])
           started == StartChatHistory(stripped, system_instruction[s])
       IN  /\ op' = Entered("load", s, target)
           /\ log' = [log EXCEPT ![s] = NoLog]
           /\ IF ~Exists(target)
              THEN /\ own_chat_history' =
                        [own_chat_history EXCEPT ![s] = [own |-> TRUE, list |-> <<>>]]
                   /\ chat_handle' =
                        [chat_handle EXCEPT ![s] = NewHandle(<<>>, system_instruction[s])]
                   /\ next_handle' = next_handle + 1
              ELSE IF loaded # NoneResult
              THEN /\ own_chat_history' =
                        [own_chat_history EXCEPT ![s] = [own |-> TRUE, list |-> started]]
                   /\ chat_handle' =
                        [chat_handle EXCEPT
                           ![s] = [id |-> next_handle, replayed |-> started,
                                   history |-> started]]
                   /\ next_handle' = next_handle + 1
              ELSE UNCHANGED << own_chat_history, chat_handle, next_handle >>
  /\ UNCHANGED << constructed, system_instruction, timestamp, chat_session_name,
                  cls_chat_history, history_json_file, files, call, sends,
                  quota_handle >>
  /\ UNCHANGED rival
  /\ UNCHANGED askVars
  /\ UNCHANGED hostVars

(***************************************************************************)
(* clear_history.  unlink of Path(), a directory, raises; the except       *)
(* clause logs the error and the session is not restarted.                 *)
(***************************************************************************)
\* clear_history with the unlink before the assignment of the empty list.
Clear_unlinkFirst ==
  /\ call.pc = "idle"
  /\ store_ops < MaxStoreOps
  /\ sends + store_ops < MaxOps
  /\ store_ops' = store_ops + 1
  /\ next_handle <= MaxHandles
  /\ \E s \in constructed :
       LET path == history_json_file[s]
       IN  /\ op' = Entered("clear", s, path)
           /\ log' = [log EXCEPT ![s] = NoLog]
           /\ IF path = DefaultPath
              THEN UNCHANGED << own_chat_history, files, chat_handle, next_handle >>
              ELSE /\ own_chat_history' =
                        [own_chat_history EXCEPT ![s] = [own |-> TRUE, list |-> <<>>]]
                   /\ files' = [files EXCEPT ![path] = Absent]
                   /\ chat_handle' =
                        [chat_handle EXCEPT ![s] = NewHandle(<<>>, system_instruction[s])]
                   /\ next_handle' = next_handle + 1
  /\ UNCHANGED << constructed, system_instruction, timestamp, chat_session_name,
                  cls_chat_history, history_json_file, call, sends, quota_handle >>
  /\ UNCHANGED rival
  /\ UNCHANGED askVars
  /\ UNCHANGED hostVars

\* clear_history.  Every statement is inside the try block, so the caller
\* gets None in every case (op.value stays TRUE).
Clear ==
  /\ call.pc = "idle"
  /\ store_ops < MaxStoreOps
  /\ sends + store_ops < MaxOps
  /\ store_ops' = store_ops + 1
  /\ next_handle <= MaxHandles
  /\ \E s \in constructed :
       LET path == history_json_file[s]
       IN  /\ op' = Entered("clear", s, path)
           /\ log' = [log EXCEPT ![s] = NoLog]
           /\ own_chat_history' =
                [own_chat_history EXCEPT ![s] = [own |-> TRUE, list |-> <<>>]]
           /\ IF path = DefaultPath
              THEN UNCHANGED << files, chat_handle, next_handle >>
              ELSE /\ files' = [files EXCEPT ![path] = Absent]
                   /\ chat_handle' =
                        [chat_handle EXCEPT ![s] = NewHandle(<<>>, system_instruction[s])]
                   /\ next_handle' = next_handle + 1
  /\ UNCHANGED << constructed, system_instruction, timestamp, chat_session_name,
                  cls_chat_history, history_json_file, call, sends, quota_handle >>
  /\ UNCHANGED rival
  /\ UNCHANGED askVars
  /\ UNCHANGED hostVars

(***************************************************************************)
(* chat.                                                                   *)
(***************************************************************************)

\* The except clause of chat that catches an exception of the provider call
\* (source order: ResourceExhausted, InvalidArgument, RpcError, Exception).
ChatClause(ex) ==
  CASE ex = "ResourceExhausted" -> "quota"
    [] ex = "InvalidArgumentTokens" -> "context"
    [] ex = "InvalidArgument" -> "invalid"
    [] ex = "RpcDeadlineExceeded" -> "deadline"
    [] ex = "RpcError" -> "rpc"
    [] OTHER -> "general"

\* ChatDisposition with a quota clause that returns without a restart.
ChatDisposition_quotaReturns(clause) ==
  CASE clause \in {"context", "deadline"} -> "restart_retry"
    [] OTHER -> "return"

ChatFailureClauses ==
  {"empty", "quota", "context", "invalid", "deadline", "rpc", "general"}

\* What chat does with a provider call that gave no text: "restart_return"
\* (restart the session, return None), "restart_retry" (restart the session,
\* call chat again) or "return" (return None).
ChatDisposition(clause) ==
  CASE clause = "quota" -> "restart_return"
    [] clause \in {"context", "deadline"} -> "restart_retry"
    [] OTHER -> "return"

\* The sleep chat takes in a clause before it restarts the session.
ChatSleep(clause) ==
  CASE clause = "quota" -> <<QUOTA_EXHAUSTED_SLEEP_SECONDS>>
    [] clause = "deadline" -> <<DeadlineSleep>>
    [] OTHER -> <<>>

\* The name chat leaves in self.chat_session_name.
NameInForce(s, name) == IF name # NoName THEN name ELSE chat_session_name[s]

\* The call record of a chat that has built its parts and awaits
\* self._chat.send_message_async, on the handle the session holds then.
ChatEntered(s, r, name) ==
  [NoCall EXCEPT !.pc = "send", !.self = s, !.q = r.q,
                 !.name = name, !.context = r.context,
                 !.instruction = system_instruction[s],
                 !.on = chat_handle[s].id]

\* What chat does to the session when the response has text: the provider
\* handle the message was sent on has taken the exchange, the exchange is
\* appended to self.chat_history and the transcript is saved.
ChatReplyEffect(c, text, io) ==
  LET s == c.self
      parts == BuildParts(c.q, c.context)
      grown == chat_history(s) \o Exchange(parts, text)
  IN  /\ IF own_chat_history[s].own
         THEN /\ own_chat_history' = [own_chat_history EXCEPT ![s].list = grown]
              /\ UNCHANGED cls_chat_history
         ELSE /\ cls_chat_history' = grown
              /\ UNCHANGED own_chat_history
      /\ chat_handle' =
           IF chat_handle[s].id = c.on
           THEN [chat_handle EXCEPT ![s].history = @ \o Exchange(parts, text)]
           ELSE chat_handle
      /\ save_chat_history(s, chat_session_name[s], grown, io)
      /\ log' = [log EXCEPT
                   ![s] = IF @.ok THEN [@ EXCEPT !.sent = @ \o Exchange(parts, text)]
                          ELSE @]

\* The call record once chat has its response text.
ChatReplied(c, text) ==
  [c EXCEPT !.pc = "done", !.calls = @ + 1, !.result = Str(text),
            !.trail = Append(@, "text")]

\* The except clause (or the empty-response branch) an outcome lands in, and
\* what that clause does next.
FailureClause(kind) == IF kind = "empty" THEN "empty" ELSE ChatClause(kind)
FailureDisposition(kind) ==
  IF kind = "empty" THEN "return" ELSE ChatDisposition(FailureClause(kind))

\* The call record after a response without text or an exception: returned,
\* or sent again by the recursive call on the handle just created.
ChatFailed(c, kind) ==
  LET counted == [c EXCEPT !.calls = @ + 1,
                           !.trail = Append(@, FailureClause(kind)),
                           !.slept = @ \o ChatSleep(FailureClause(kind)),
                           !.failed_on = c.on]
  IN  CASE FailureDisposition(kind) = "return" -> [counted EXCEPT !.pc = "done"]
        [] FailureDisposition(kind) = "restart_return" ->
             [counted EXCEPT !.pc = "done", !.restarts = @ + 1]
        [] OTHER ->
             [counted EXCEPT !.depth = @ + 1, !.restarts = @ + 1,
                             !.on = next_handle]

\* What chat does to the session in that case.
ChatFailureEffect(c, kind) ==
  LET s == c.self
  IN  /\ quota_handle' =
           IF FailureClause(kind) = "quota"
           THEN [quota_handle EXCEPT ![s] = c.on]
           ELSE quota_handle
      /\ log' = [log EXCEPT ![s] = NoLog]
      /\ CASE FailureDisposition(kind) = "return" ->
                UNCHANGED << system_instruction, own_chat_history,
                             chat_handle, next_handle >>
           [] FailureDisposition(kind) = "restart_return" ->
                /\ next_handle <= MaxHandles
                /\ start_new_chat_session(s, system_instruction[s])
           [] OTHER ->
                /\ next_handle <= MaxHandles
                /\ c.depth < MaxDepth
                /\ start_new_chat_session(s, system_instruction[s])

\* chat is entered: the session name is set and the parts are built.
ChatStart ==
  /\ call.pc = "idle"
  /\ sends < MaxSends
  /\ sends + store_ops < MaxOps
  /\ sends' = sends + 1
  /\ \E s \in constructed, r \in Requests, name \in SessionNames :
       /\ call' = ChatEntered(s, r, name)
       /\ chat_session_name' = [chat_session_name EXCEPT ![s] = NameInForce(s, name)]
       /\ op' = Entered("chat", s, r.q)
  /\ UNCHANGED << constructed, system_instruction, timestamp,
                  cls_chat_history, own_chat_history, chat_handle, next_handle,
                  history_json_file, files, quota_handle, log >>
  /\ UNCHANGED store_ops
  /\ UNCHANGED rival
  /\ UNCHANGED askVars
  /\ UNCHANGED hostVars

\* send_message_async returned a response with text: append, save, return.
ChatReply ==
  /\ call.pc = "send"
  /\ \E text \in ChatReplies, io \in IoOutcomes :
       /\ ChatReplyEffect(call, text, io)
       /\ call' = ChatReplied(call, text)
       /\ op' = [op EXCEPT !.value = (io = "ok")]
  /\ UNCHANGED << constructed, system_instruction, timestamp,
                  chat_session_name, next_handle, sends, quota_handle >>
  /\ UNCHANGED store_ops
  /\ UNCHANGED rival
  /\ UNCHANGED askVars
  /\ UNCHANGED hostVars

\* send_message_async returned a response without text, or raised.
ChatFailure ==
  /\ call.pc = "send"
  /\ \E kind \in {"empty"} \cup Exceptions :
       /\ ChatFailureEffect(call, kind)
       /\ call' = ChatFailed(call, kind)
  /\ UNCHANGED << constructed, timestamp, chat_session_name,
                  cls_chat_history, history_json_file, files, sends, op >>
  /\ UNCHANGED store_ops
  /\ UNCHANGED rival
  /\ UNCHANGED askVars
  /\ UNCHANGED hostVars

\* The caller takes chat's value.
ChatReturn ==
  /\ call.pc = "done"
  /\ call' = NoCall
  /\ UNCHANGED << constructed, system_instruction, timestamp,
                  chat_session_name, cls_chat_history, own_chat_history,
                  chat_handle, next_handle, history_json_file, files, sends,
                  quota_handle, log, op >>
  /\ UNCHANGED store_ops
  /\ UNCHANGED rival
  /\ UNCHANGED askVars
  /\ UNCHANGED hostVars

(***************************************************************************)
(* Cancellation.  A task that runs chat can be cancelled where it is       *)
(* suspended: at the await of send_message_async, or at the await of       *)
(* asyncio.sleep in the quota clause or the deadline clause (the sleep     *)
(* comes before start_new_chat_session in both).  CancelledError is not an *)
(* Exception, so no except clause of chat handles it.                      *)
(***************************************************************************)
Cancelled == [kind |-> "cancelled", val |-> <<>>]

SleepingExceptions == { ex \in Exceptions : ChatSleep(ChatClause(ex)) # <<>> }

\* The call record once the cancellation has left chat: at the provider
\* call, or in the sleep of the clause the exception landed in.
ChatCancelled(c, point) ==
  IF point = "send"
  THEN [c EXCEPT !.pc = "done", !.result = Cancelled,
                 !.trail = Append(@, "cancelled")]
  ELSE [c EXCEPT !.pc = "done", !.result = Cancelled,
                 !.calls = @ + 1,
                 !.trail = Append(Append(@, ChatClause(point)), "cancelled"),
                 !.slept = @ \o ChatSleep(ChatClause(point)),
                 !.failed_on = c.on]

\* chat with the user message appended before the provider call.
ChatCancel_userAppendedFirst ==
  /\ call.pc = "send"
  /\ \E point \in {"send"} \cup SleepingExceptions :
       /\ call' = ChatCancelled(call, point)
       /\ quota_handle' =
            IF point # "send" /\ ChatClause(point) = "quota"
            THEN [quota_handle EXCEPT ![call.self] = call.on]
            ELSE quota_handle
       /\ log' = IF point = "send" THEN log ELSE [log EXCEPT ![call.self] = NoLog]
  /\ IF own_chat_history[call.self].own
     THEN /\ own_chat_history' =
               [own_chat_history EXCEPT
                  ![call.self].list =
                     Append(@, UserMessage(BuildParts(call.q, call.context)))]
          /\ UNCHANGED cls_chat_history
     ELSE /\ cls_chat_history' =
               Append(cls_chat_history, UserMessage(BuildParts(call.q, call.context)))
          /\ UNCHANGED own_chat_history
  /\ UNCHANGED << constructed, system_instruction, timestamp,
                  chat_session_name, chat_handle, next_handle,
                  history_json_file, files, sends, op >>
  /\ UNCHANGED store_ops
  /\ UNCHANGED rival
  /\ UNCHANGED askVars
  /\ UNCHANGED hostVars

\* The task running chat is cancelled while it is suspended.
ChatCancel ==
  /\ call.pc = "send"
  /\ \E point \in {"send"} \cup SleepingExceptions :
       /\ call' = ChatCancelled(call, point)
       /\ quota_handle' =
            IF point # "send" /\ ChatClause(point) = "quota"
            THEN [quota_handle EXCEPT ![call.self] = call.on]
            ELSE quota_handle
       /\ log' = IF point = "send" THEN log ELSE [log EXCEPT ![call.self] = NoLog]
  /\ UNCHANGED << constructed, system_instruction, timestamp,
                  chat_session_name, cls_chat_history, own_chat_history,
                  chat_handle, next_handle, history_json_file, files, sends, op >>
  /\ UNCHANGED store_ops
  /\ UNCHANGED rival
  /\ UNCHANGED askVars
  /\ UNCHANGED hostVars

(***************************************************************************)
(* A crash.  The process can stop between the two appends of chat and its  *)
(* call of _save_chat_history; nothing runs after that, and the history    *)
(* directory is what it was.                                               *)
(***************************************************************************)
\* chat with the save before the appends, stopped between the two.
Crash_persistFirst ==
  /\ call.pc = "send"
  /\ \E text \in ChatReplies :
       LET s == call.self
           grown == chat_history(s) \o Exchange(BuildParts(call.q, call.context), text)
       IN  /\ save_chat_history(s, chat_session_name[s], grown, "ok")
           /\ chat_handle' =
                IF chat_handle[s].id = call.on
                THEN [chat_handle EXCEPT
                        ![s].history =
                           @ \o Exchange(BuildParts(call.q, call.context), text)]
                ELSE chat_handle
           /\ call' = [call EXCEPT !.pc = "crashed", !.calls = @ + 1,
                                   !.trail = Append(@, "text")]
  /\ UNCHANGED << constructed, system_instruction, timestamp,
                  chat_session_name, cls_chat_history, own_chat_history,
                  next_handle, sends, quota_handle, log, op >>
  /\ UNCHANGED store_ops
  /\ UNCHANGED rival
  /\ UNCHANGED askVars
  /\ UNCHANGED hostVars

\* The response had text, both messages were appended, and the process
\* stopped before _save_chat_history was called.
Crash ==
  /\ call.pc = "send"
  /\ \E text \in ChatReplies :
       LET s == call.self
           grown == chat_history(s) \o Exchange(BuildParts(call.q, call.context), text)
       IN  /\ IF own_chat_history[s].own
              THEN /\ own_chat_history' = [own_chat_history EXCEPT ![s].list = grown]
                   /\ UNCHANGED cls_chat_history
              ELSE /\ cls_chat_history' = grown
                   /\ UNCHANGED own_chat_history
           /\ chat_handle' =
                IF chat_handle[s].id = call.on
                THEN [chat_handle EXCEPT
                        ![s].history =
                           @ \o Exchange(BuildParts(call.q, call.context), text)]
                ELSE chat_handle
           /\ call' = [call EXCEPT !.pc = "crashed", !.calls = @ + 1,
                                   !.trail = Append(@, "text")]
  /\ UNCHANGED << constructed, system_instruction, timestamp,
                  chat_session_name, next_handle, history_json_file, files,
                  sends, quota_handle, log, op >>
  /\ UNCHANGED store_ops
  /\ UNCHANGED rival
  /\ UNCHANGED askVars
  /\ UNCHANGED hostVars

(***************************************************************************)
(* chat is a coroutine and holds no lock: while one call awaits            *)
(* send_message_async, the event loop can run a second call of chat, on    *)
(* the same session or another one.                                        *)
(***************************************************************************)
RivalStart ==
  /\ call.pc = "send"
  /\ rival.pc = "idle"
  /\ sends < MaxSends
  /\ sends + store_ops < MaxOps
  /\ sends' = sends + 1
  /\ \E s \in constructed, r \in Requests, name \in SessionNames :
       /\ rival' = ChatEntered(s, r, name)
       /\ chat_session_name' = [chat_session_name EXCEPT ![s] = NameInForce(s, name)]
       /\ op' = Entered("chat", s, r.q)
  /\ UNCHANGED << constructed, system_instruction, timestamp,
                  cls_chat_history, own_chat_history, chat_handle, next_handle,
                  history_json_file, files, quota_handle, log, call >>
  /\ UNCHANGED store_ops
  /\ UNCHANGED askVars
  /\ UNCHANGED hostVars

RivalReply ==
  /\ rival.pc = "send"
  /\ \E text \in ChatReplies, io \in IoOutcomes :
       /\ ChatReplyEffect(rival, text, io)
       /\ rival' = ChatReplied(rival, text)
       /\ op' = [op EXCEPT !.value = (io = "ok")]
  /\ UNCHANGED << constructed, system_instruction, timestamp,
                  chat_session_name, next_handle, sends, quota_handle, call >>
  /\ UNCHANGED store_ops
  /\ UNCHANGED askVars
  /\ UNCHANGED hostVars

RivalFailure ==
  /\ rival.pc = "send"
  /\ \E kind \in {"empty"} \cup Exceptions :
       /\ ChatFailureEffect(rival, kind)
       /\ rival' = ChatFailed(rival, kind)
  /\ UNCHANGED << constructed, timestamp, chat_session_name,
                  cls_chat_history, history_json_file, files, sends, op, call >>
  /\ UNCHANGED store_ops
  /\ UNCHANGED askVars
  /\ UNCHANGED hostVars

RivalReturn ==
  /\ rival.pc = "done"
  /\ rival' = NoCall
  /\ UNCHANGED << constructed, system_instruction, timestamp,
                  chat_session_name, cls_chat_history, own_chat_history,
                  chat_handle, next_handle, history_json_file, files, sends,
                  quota_handle, log, op, call >>
  /\ UNCHANGED store_ops
  /\ UNCHANGED askVars
  /\ UNCHANGED hostVars

ChatNext ==
  \/ Construct
  \/ Reset
  \/ ChatStart
  \/ ChatReply
  \/ ChatFailure
  \/ ChatReturn

\* The request content is built, by chat or by describe_image.
BuildChat ==
  /\ builder.fn = "chat"
  /\ Len(built) < MaxBuilds
  /\ built' = Append(built, Parts(BuildParts(builder.q, builder.context)))
  /\ UNCHANGED << builder, described >>
  /\ UNCHANGED keyVars
  /\ UNCHANGED threadVars
  /\ UNCHANGED projVars
  /\ UNCHANGED askVars
  /\ UNCHANGED chatVars

BuildImage ==
  /\ builder.fn = "describe_image"
  /\ Len(built) < MaxBuilds
  /\ built' = Append(built, DescribeImageParts(builder.q, builder.image, builder.upload))
  /\ UNCHANGED << builder, described >>
  /\ UNCHANGED keyVars
  /\ UNCHANGED threadVars
  /\ UNCHANGED projVars
  /\ UNCHANGED askVars
  /\ UNCHANGED chatVars

PartsInit ==
  /\ AskInit
  /\ ChatInit
  /\ KeyInit
  /\ ThreadInit
  /\ ProjectInit
  /\ builder \in BuildInputs
  /\ built = <<>>
  /\ described = NoneResult

PartsNext ==
  \/ BuildChat
  \/ BuildImage

\* The building of request content alone, for every input.
PartsSpec == PartsInit /\ [][PartsNext]_vars

\* The settings dialog is accepted: the key in its input is saved.
SaveSettings ==
  /\ \E key \in ApiKeys : api_key' = key
  /\ UNCHANGED << provider, dialog, provider_calls, answer >>
  /\ UNCHANGED buildVars
  /\ UNCHANGED threadVars
  /\ UNCHANGED projVars
  /\ UNCHANGED askVars
  /\ UNCHANGED chatVars

\* ChatDialog.__init__ and its _initialize_ai: without a key the send button
\* is disabled and no llm is made; the constructor of the llm may raise.
OpenDialog ==
  /\ ~dialog.open
  /\ \E init \in {"ok", "raises"} :
       dialog' =
         IF api_key = NoKey
         THEN [open |-> TRUE, llm |-> "None", send_btn |-> FALSE]
         ELSE IF init = "raises"
         THEN [open |-> TRUE, llm |-> "None", send_btn |-> FALSE]
         ELSE [open |-> TRUE, llm |-> api_key, send_btn |-> TRUE]
  /\ UNCHANGED << api_key, provider, provider_calls, answer >>
  /\ UNCHANGED buildVars
  /\ UNCHANGED threadVars
  /\ UNCHANGED projVars
  /\ UNCHANGED askVars
  /\ UNCHANGED chatVars

CloseDialog ==
  /\ dialog.open
  /\ dialog' = NoDialog
  /\ UNCHANGED << api_key, provider, provider_calls, answer >>
  /\ UNCHANGED buildVars
  /\ UNCHANGED threadVars
  /\ UNCHANGED projVars
  /\ UNCHANGED askVars
  /\ UNCHANGED chatVars

\* ChatDialog._send_message, by the button or by the Ctrl+Return shortcut
\* (which works with the button disabled): refused when there is no llm.
DialogSend ==
  /\ dialog.open
  /\ Len(provider_calls) < MaxProviderCalls
  /\ IF dialog.llm = "None"
     THEN /\ answer' = "refused"
          /\ UNCHANGED provider_calls
     ELSE /\ answer' = "sent"
          /\ provider_calls' =
               Append(provider_calls, ProviderCall("dialog", "gemini", dialog.llm))
  /\ UNCHANGED << api_key, provider, dialog >>
  /\ UNCHANGED buildVars
  /\ UNCHANGED threadVars
  /\ UNCHANGED projVars
  /\ UNCHANGED askVars
  /\ UNCHANGED chatVars

\* The Ask AI command of the workbench: refused without a key; with one,
\* llm.ask is called with an image_path argument that ask does not have,
\* which raises before any provider call.
CommandAsk ==
  /\ answer' = IF api_key = NoKey THEN "refused" ELSE "error"
  /\ UNCHANGED << api_key, provider, dialog, provider_calls >>
  /\ UNCHANGED buildVars
  /\ UNCHANGED threadVars
  /\ UNCHANGED projVars
  /\ UNCHANGED askVars
  /\ UNCHANGED chatVars

\* AIClient().ask: the settings are read and the provider's client is made
\* and asked.  Only the OpenAI client tests the key.
AIClient_ask ==
  /\ Len(provider_calls) < MaxProviderCalls
  /\ \E init \in {"ok", "raises"} :
       CASE provider = "ollama" ->
              /\ answer' = "sent"
              /\ provider_calls' =
                   Append(provider_calls, ProviderCall("AIClient", "ollama", api_key))
         [] provider = "openai" ->
              IF api_key = NoKey
              THEN /\ answer' = "refused"
                   /\ UNCHANGED provider_calls
              ELSE /\ answer' = "sent"
                   /\ provider_calls' =
                        Append(provider_calls, ProviderCall("AIClient", "openai", api_key))
         [] OTHER ->
              IF init = "raises"
              THEN /\ answer' = "error"
                   /\ UNCHANGED provider_calls
              ELSE /\ answer' = "sent"
                   /\ provider_calls' =
                        Append(provider_calls, ProviderCall("AIClient", "gemini", api_key))
  /\ UNCHANGED << api_key, provider, dialog >>
  /\ UNCHANGED buildVars
  /\ UNCHANGED threadVars
  /\ UNCHANGED projVars
  /\ UNCHANGED askVars
  /\ UNCHANGED chatVars

KeySpecInit ==
  /\ AskInit
  /\ ChatInit
  /\ BuildInit
  /\ ThreadInit
  /\ ProjectInit
  /\ api_key \in ApiKeys
  /\ provider \in Providers
  /\ dialog = NoDialog
  /\ provider_calls = <<>>
  /\ answer = "none"

KeyNext ==
  \/ SaveSettings
  \/ OpenDialog
  \/ CloseDialog
  \/ DialogSend
  \/ CommandAsk
  \/ AIClient_ask

\* The client paths and the API key alone.
KeySpec == KeySpecInit /\ [][KeyNext]_vars

\* The call that makes a retrying function wait: time.sleep in ask, await
\* asyncio.sleep in ask_async and in chat.
SleepCall(fn) == IF fn = "ask" THEN "time.sleep" ELSE "asyncio.sleep"

\* How the function is run: called (ask), awaited on the caller's event loop
\* (ask_async, chat), or, for the dialog's chat, run to completion on an
\* event loop that ChatDialog._process_message makes inside its handler.
Runners(fn) ==
  CASE fn = "ask" -> {"called"}
    [] fn = "chat" -> {"awaited", "run_until_complete"}
    [] OTHER -> {"awaited"}

\* The sleeps of ask and ask_async: a clause that retries at loop index k.
AskSleeps ==
  { [fn |-> m, clause |-> c, attempt |-> k, seconds |-> Backoff(c, k),
     wait |-> SleepCall(m), runner |-> r] :
      m \in {"ask", "ask_async"}, c \in Clauses, k \in 0..(MaxAttempts - 1),
      r \in {"called", "awaited"} }

\* The sleeps of chat: in the quota clause and in the deadline clause.
ChatSleeps ==
  { [fn |-> "chat", clause |-> c, attempt |-> 0, seconds |-> ChatSleep(c)[1],
     wait |-> SleepCall("chat"), runner |-> r] :
      c \in {"quota", "deadline"}, r \in Runners("chat") }

BackoffSites ==
  { b \in AskSleeps : /\ Disposition(b.fn, b.clause, b.attempt) = "retry"
                      /\ b.runner \in Runners(b.fn) }
    \cup ChatSleeps

\* The thread the sleeping function runs on can run nothing else: time.sleep
\* holds the thread, and run_until_complete returns to the handler that
\* called it only when chat has returned; the loop it runs has no other task.
ThreadHeld(b) == b.wait = "time.sleep" \/ b.runner = "run_until_complete"

\* A retrying clause enters its sleep.
BackoffBegins ==
  /\ sleeper = NoSleeper
  /\ \E b \in BackoffSites : sleeper' = b
  /\ UNCHANGED << handled, other_sends >>
  /\ UNCHANGED << buildVars, keyVars >>
  /\ UNCHANGED projVars
  /\ UNCHANGED askVars
  /\ UNCHANGED chatVars

\* The sleep is over.
BackoffEnds ==
  /\ sleeper # NoSleeper
  /\ sleeper' = NoSleeper
  /\ UNCHANGED << handled, other_sends >>
  /\ UNCHANGED << buildVars, keyVars >>
  /\ UNCHANGED projVars
  /\ UNCHANGED askVars
  /\ UNCHANGED chatVars

\* A send on another session is started on the thread and completes.
OtherSend ==
  /\ ~ThreadHeld(sleeper)
  /\ other_sends < MaxThreadEvents
  /\ other_sends' = other_sends + 1
  /\ UNCHANGED << sleeper, handled >>
  /\ UNCHANGED << buildVars, keyVars >>
  /\ UNCHANGED projVars
  /\ UNCHANGED askVars
  /\ UNCHANGED chatVars

\* The host handles an event on the thread.
HostEvent ==
  /\ ~ThreadHeld(sleeper)
  /\ handled < MaxThreadEvents
  /\ handled' = handled + 1
  /\ UNCHANGED << sleeper, other_sends >>
  /\ UNCHANGED << buildVars, keyVars >>
  /\ UNCHANGED projVars
  /\ UNCHANGED askVars
  /\ UNCHANGED chatVars

ThreadNext ==
  \/ BackoffBegins
  \/ BackoffEnds
  \/ OtherSend
  \/ HostEvent

\* The backoff sleeps and what else the thread can do meanwhile.
ThreadSpec == Init /\ [][ThreadNext]_vars

\* ask and ask_async alone.
AskSpec == Init /\ [][AskNext]_vars

\* ask and ask_async, where every provider call comes back with an outcome,
\* every sleep ends and the code after the loop runs.
AskLiveSpec ==
  /\ Init
  /\ [][AskNext]_vars
  /\ WF_vars(AskAttempt)
  /\ WF_vars(AskLoopExhausted)

\* The chat sessions alone.
ChatSpec == Init /\ [][ChatNext]_vars

\* The chat sessions and their history records.
StoreNext ==
  \/ Construct
  \/ Reset
  \/ Save
  \/ Export
  \/ Load
  \/ Clear
  \/ ChatStart
  \/ ChatReply
  \/ ChatFailure
  \/ ChatReturn

StoreSpec == Init /\ [][StoreNext]_vars

\* str(image_path) of an image attached in the dialog.
ImagePaths == { <<"ai_data/view.png">> }

\* The two messages ChatDialog._process_message appends after describe_image
\* has returned a text.
ImageExchange(message, image_path, response) ==
  << UserMessage(<< <<message>>, image_path >>), ModelMessage(response) >>

\* ChatDialog._process_message with an image attached: describe_image is
\* called (it uses self.model, not the chat handle); if it returns a text
\* the handler appends the two messages to llm.chat_history itself and runs
\* _save_chat_history.
DialogImageSend ==
  /\ call.pc = "idle"
  /\ store_ops < MaxStoreOps
  /\ sends + store_ops < MaxOps
  /\ store_ops' = store_ops + 1
  /\ \E s \in constructed, r \in Requests, image_path \in ImagePaths,
        response \in ChatReplies \cup {<<>>}, io \in IoOutcomes :
       LET grown == chat_history(s) \o ImageExchange(r.q, image_path, response)
       IN  /\ op' = [Entered("dialog_image", s, r.q) EXCEPT
                       !.value = (response # <<>>)]
           /\ IF response = <<>>
              THEN UNCHANGED << cls_chat_history, own_chat_history,
                                history_json_file, files, log >>
              ELSE /\ IF own_chat_history[s].own
                      THEN /\ own_chat_history' =
                                [own_chat_history EXCEPT ![s].list = grown]
                           /\ UNCHANGED cls_chat_history
                      ELSE /\ cls_chat_history' = grown
                           /\ UNCHANGED own_chat_history
                   /\ save_chat_history(s, chat_session_name[s], grown, io)
                   /\ log' = [log EXCEPT ![s] = NoLog]
  /\ UNCHANGED << constructed, system_instruction, timestamp, chat_session_name,
                  chat_handle, next_handle, call, sends, quota_handle >>
  /\ UNCHANGED rival
  /\ UNCHANGED askVars
  /\ UNCHANGED hostVars

DialogNext ==
  \/ Construct
  \/ Reset
  \/ Load
  \/ Clear
  \/ ChatStart
  \/ ChatReply
  \/ ChatFailure
  \/ ChatReturn
  \/ DialogImageSend

\* The sessions' own operations and the chat dialog's image messages.
DialogSpec == Init /\ [][DialogNext]_vars

\* An initial history a caller hands to start_new_chat_session: one exchange.
InitialHistories ==
  { Exchange(BuildParts(r.q, r.context), text) :
      r \in {q \in Requests : q.context = NoContext}, text \in ChatReplies }

\* start_new_chat_session(new_system_instruction, initial_history): the
\* transcript is emptied, the new handle replays the initial history.
start_new_chat_session_from(s, new_system_instruction, initial_history) ==
  /\ system_instruction' =
       [system_instruction EXCEPT ![s] = NewInstruction(s, new_system_instruction)]
  /\ own_chat_history' = [own_chat_history EXCEPT ![s] = [own |-> TRUE, list |-> <<>>]]
  /\ chat_handle' =
       [chat_handle EXCEPT
          ![s] = NewHandle(initial_history, NewInstruction(s, new_system_instruction))]
  /\ next_handle' = next_handle + 1

\* A caller's start_new_chat_session with an initial history.
ResetWithHistory ==
  /\ call.pc = "idle"
  /\ next_handle <= MaxHandles
  /\ \E s \in constructed, si \in SysInstructions,
        initial_history \in InitialHistories :
       /\ start_new_chat_session_from(s, si, initial_history)
       /\ log' = [log EXCEPT ![s] = NoLog]
       /\ op' = Entered("reset_from", s, si)
  /\ UNCHANGED << constructed, timestamp, chat_session_name, cls_chat_history,
                  history_json_file, files, call, sends, quota_handle >>
  /\ UNCHANGED store_ops
  /\ UNCHANGED rival
  /\ UNCHANGED askVars
  /\ UNCHANGED hostVars

ReplayNext ==
  \/ Construct
  \/ ResetWithHistory
  \/ Load
  \/ ChatStart
  \/ ChatReply
  \/ ChatFailure
  \/ ChatReturn
  \/ DialogImageSend

\* The sessions with handles that replay a history, and the dialog's image
\* messages.
ReplaySpec == Init /\ [][ReplayNext]_vars

\* ask / ask_async is entered on the client object of a chat session, once
\* the sends of the run have been made and before any describe_image.
AskOnSession ==
  /\ ask_pc = "idle"
  /\ constructed # {}
  /\ call.pc = "idle"
  /\ sends = MaxSends
  /\ built = <<>>
  /\ \E m \in {"ask", "ask_async"}, n \in {MaxFrameAttempts}, c \in BOOLEAN,
        r \in Requests :
       /\ ask_mode' = m
       /\ attempts' = n
       /\ clean_response' = c
       /\ content_to_send' = BuildParts(r.q, r.context)
  /\ ask_pc' = "loop"
  /\ UNCHANGED << attempt, calls, failures, last_outcome, response_text,
                  ask_result, ask_exit, last_sleep, sleeps >>
  /\ UNCHANGED chatVars
  /\ UNCHANGED hostVars

\* What describe_image returns: the response text, or None when the parts
\* could not be built, the call raised or the response had no text.
Described(content, o) ==
  IF content # Raised /\ o.kind = "text" THEN Str(o.text) ELSE NoneResult

\* describe_image with an exchange recorded in the transcript of the session.
DescribeImage_recordsExchange ==
  /\ Len(built) < MaxDescribes
  /\ call.pc = "idle"
  /\ sends = MaxSends
  /\ ask_pc = "idle"
  /\ \E s \in constructed, q \in {r.q : r \in Requests}, image \in Images,
        upload \in UploadOutcomes, o \in Outcomes :
       LET content == DescribeImageParts(q, image, upload)
       IN  /\ built' = Append(built, content)
           /\ described' = Described(content, o)
           /\ own_chat_history' =
                [own_chat_history EXCEPT
                   ![s] = [own |-> TRUE,
                           list |-> chat_history(s)
                                      \o <<UserMessage(<< <<q>> >>)>>]]
  /\ UNCHANGED builder
  /\ UNCHANGED keyVars
  /\ UNCHANGED threadVars
  /\ UNCHANGED projVars
  /\ UNCHANGED askVars
  /\ UNCHANGED << constructed, system_instruction, timestamp, chat_session_name,
                  cls_chat_history, chat_handle, next_handle,
                  history_json_file, files, call, rival, sends, quota_handle,
                  log, op, store_ops >>

\* describe_image on the client object of a chat session: the parts are
\* built, self.model.generate_content is called once, the text or None is
\* returned.  The call is made once the sends of the run have been made,
\* while no ask is in progress.
DescribeImage ==
  /\ Len(built) < MaxDescribes
  /\ call.pc = "idle"
  /\ sends = MaxSends
  /\ ask_pc = "idle"
  /\ \E s \in constructed, q \in {r.q : r \in Requests}, image \in Images,
        upload \in UploadOutcomes, o \in Outcomes :
       LET content == DescribeImageParts(q, image, upload)
       IN  /\ built' = Append(built, content)
           /\ described' = Described(content, o)
  /\ UNCHANGED builder
  /\ UNCHANGED keyVars
  /\ UNCHANGED threadVars
  /\ UNCHANGED projVars
  /\ UNCHANGED askVars
  /\ UNCHANGED chatVars

FrameNext ==
  \/ Construct
  \/ ChatStart
  \/ ChatReply
  \/ ChatReturn
  \/ AskOnSession
  \/ AskAttempt
  \/ AskLoopExhausted
  \/ AskReturn
  \/ DescribeImage

\* The stateless calls made on the client object of a chat session.
FrameSpec == Init /\ [][FrameNext]_vars

(***************************************************************************)
(* The project file.  Every module that needs the links makes its own      *)
(* AIProject when it is imported; an AIProject reads project.json once, in *)
(* its constructor, and save writes the whole of its own data.  The write  *)
(* of project.json is taken to succeed.                                    *)
(***************************************************************************)
link_text_to_image(links, image_file, text_file) ==
  [links EXCEPT ![image_file] = text_file]

unlink_image(links, image_file) == [links EXCEPT ![image_file] = NoLink]

unlink_text(links, text_file) ==
  [i \in Images |-> IF links[i] = text_file THEN NoLink ELSE links[i]]

\* A module is imported: project = AIProject().
ImportModule ==
  /\ \E m \in Modules :
       /\ ~project_data[m].loaded
       /\ project_data' = [project_data EXCEPT ![m] = [loaded |-> TRUE, links |-> project_json]]
       /\ proj_op' = [NoProjOp EXCEPT !.name = "import", !.module = m]
  /\ UNCHANGED << project_json, text_files >>
  /\ UNCHANGED << buildVars, keyVars, threadVars >>
  /\ UNCHANGED askVars
  /\ UNCHANGED chatVars

\* link_image / link_selected of a dialog: project.link_text_to_image.
LinkImage ==
  /\ \E m \in Modules, image_file \in Images, text_file \in text_files :
       /\ project_data[m].loaded
       /\ project_data' = [project_data EXCEPT
                     ![m].links = link_text_to_image(@, image_file, text_file)]
       /\ project_json' = link_text_to_image(project_data[m].links, image_file, text_file)
       /\ proj_op' = [NoProjOp EXCEPT !.name = "link", !.module = m,
                                      !.image = image_file, !.text = text_file]
  /\ UNCHANGED text_files
  /\ UNCHANGED << buildVars, keyVars, threadVars >>
  /\ UNCHANGED askVars
  /\ UNCHANGED chatVars

\* unlink_image of a content manager: only an image its own AIProject
\* holds as linked is unlinked.
UnlinkImage ==
  /\ \E m \in {"content_manager", "ai_engineer_workbench"}, image_file \in Images :
       /\ project_data[m].loaded
       /\ project_data[m].links[image_file] # NoLink
       /\ project_data' = [project_data EXCEPT ![m].links = unlink_image(@, image_file)]
       /\ project_json' = unlink_image(project_data[m].links, image_file)
       /\ proj_op' = [NoProjOp EXCEPT !.name = "unlink", !.module = m,
                                      !.image = image_file]
  /\ UNCHANGED text_files
  /\ UNCHANGED << buildVars, keyVars, threadVars >>
  /\ UNCHANGED askVars
  /\ UNCHANGED chatVars

\* delete_selected_text of dialogs/content_manager.py: project.unlink_text
\* (which saves when it removed a link), then safe_remove, which may fail.
DeleteText ==
  /\ \E filename \in text_files, removed \in BOOLEAN :
       LET m == "content_manager"
           unlinked == unlink_text(project_data[m].links, filename)
       IN  /\ project_data[m].loaded
           /\ project_data' = [project_data EXCEPT ![m].links = unlinked]
           /\ project_json' =
                IF unlinked # project_data[m].links THEN unlinked ELSE project_json
           /\ text_files' = IF removed THEN text_files \ {filename} ELSE text_files
           /\ proj_op' = [NoProjOp EXCEPT !.name = "delete", !.module = m,
                                          !.text = filename, !.removed = removed]
  /\ UNCHANGED << buildVars, keyVars, threadVars >>
  /\ UNCHANGED askVars
  /\ UNCHANGED chatVars

\* delete_selected_text of the content manager in ai_engineer_workbench.py:
\* safe_remove alone.
DeleteTextInWorkbench ==
  /\ \E filename \in text_files, removed \in BOOLEAN :
       LET m == "ai_engineer_workbench"
       IN  /\ project_data[m].loaded
           /\ text_files' = IF removed THEN text_files \ {filename} ELSE text_files
           /\ proj_op' = [NoProjOp EXCEPT !.name = "delete", !.module = m,
                                          !.text = filename, !.removed = removed]
  /\ UNCHANGED << project_json, project_data >>
  /\ UNCHANGED << buildVars, keyVars, threadVars >>
  /\ UNCHANGED askVars
  /\ UNCHANGED chatVars

ProjectNext ==
  \/ ImportModule
  \/ LinkImage
  \/ UnlinkImage
  \/ DeleteText
  \/ DeleteTextInWorkbench

\* The links of the project and the handlers that change them.
ProjectSpec == Init /\ [][ProjectNext]_vars

\* The chat sessions with calls of chat that overlap.
RaceNext ==
  \/ Construct
  \/ Reset
  \/ ChatStart
  \/ ChatReply
  \/ ChatFailure
  \/ ChatReturn
  \/ RivalStart
  \/ RivalReply
  \/ RivalFailure
  \/ RivalReturn

RaceSpec == Init /\ [][RaceNext]_vars

\* The chat sessions with calls of chat that may be cancelled.
CancelNext ==
  \/ Construct
  \/ Reset
  \/ ChatStart
  \/ ChatReply
  \/ ChatFailure
  \/ ChatCancel
  \/ ChatReturn

CancelSpec == Init /\ [][CancelNext]_vars

\* The chat sessions and their history records, in a process that may stop.
CrashNext ==
  \/ Construct
  \/ Reset
  \/ Save
  \/ Export
  \/ Load
  \/ Clear
  \/ ChatStart
  \/ ChatReply
  \/ ChatFailure
  \/ ChatReturn
  \/ Crash

CrashSpec == Init /\ [][CrashNext]_vars

\* The client as a whole.
Next ==
  \/ AskStart
  \/ AskAttempt
  \/ AskLoopExhausted
  \/ AskReturn
  \/ Construct
  \/ Reset
  \/ Save
  \/ Export
  \/ Load
  \/ Clear
  \/ ChatStart
  \/ ChatReply
  \/ ChatFailure
  \/ ChatReturn

Spec == Init /\ [][Next]_vars

(***************************************************************************)
(* Properties.                                                             *)
(***************************************************************************)

\* Every failed iteration of this invocation was handled by `clause`.
OnlyFailed(clause) == \A c \in Clauses \ {clause} : failures[c] = 0

\* The value ask hands back for a response text: the text itself, or the
\* text cleaned by normalize_answer when clean_response is on.
ReturnedFor(text) ==
  IF clean_response
  THEN [kind |-> "str", val |-> normalize_answer(text)]
  ELSE [kind |-> "str", val |-> text]

LastOf(seq) == seq[Len(seq)]

\* C1: with the default budget, when the first k <= 4 provider calls of ask
\* fail with a network error, call k+1 is made, and when it succeeds ask
\* returns its value after exactly k+1 provider calls.
C1_NetworkFailuresThenSuccess ==
  (attempts = DefaultAttempts /\ OnlyFailed("network") /\ failures["network"] <= 4) =>
     /\ last_outcome = "RequestException" => ask_pc = "loop" /\ attempt < attempts
     /\ last_outcome = "text" =>
          /\ ask_pc = "done"
          /\ ask_result = ReturnedFor(response_text)
          /\ calls = failures["network"] + 1

C1_Witness ==
  /\ ask_pc = "done"
  /\ attempts = DefaultAttempts
  /\ OnlyFailed("network")
  /\ failures["network"] = 4
  /\ last_outcome = "text"

\* C2: when every provider call fails with a network error, ask (default
\* budget) surfaces a failure after exactly 5 provider calls.
C2_NetworkGivesUpAfterFiveCalls ==
  ( /\ ask_pc = "done"
    /\ attempts = DefaultAttempts
    /\ OnlyFailed("network")
    /\ last_outcome = "RequestException" ) =>
     ask_result = NoneResult /\ calls = 5

\* C9: when every provider call fails with service-unavailable or gateway
\* timeout, ask makes at most 3 provider calls, then surfaces the failure.
C9_ServiceGivesUpAfterThreeCalls ==
  (OnlyFailed("service") /\ last_outcome \in {"GatewayTimeout", "ServiceUnavailable"}) =>
     calls <= 3

\* C10: with budget n and every response empty, ask makes exactly n provider
\* calls and then returns None; a response with text at any attempt within
\* the budget ends the call with that text as the result.
C10_EmptyResponsesUseTheBudget ==
  /\ (ask_pc = "done" /\ OnlyFailed("empty") /\ last_outcome # "text") =>
        /\ calls = attempts
        /\ ask_exit = "exhausted"
        /\ ask_result = NoneResult
  /\ (OnlyFailed("empty") /\ last_outcome = "text") =>
        /\ ask_pc = "done"
        /\ calls <= attempts
        /\ ask_result = ReturnedFor(response_text)

C10_Witness ==
  /\ ask_pc = "done"
  /\ ask_exit = "exhausted"
  /\ attempts = MaxAttempts
  /\ failures["empty"] = MaxAttempts

\* C3: a session that has seen nothing but n successful sends since it was
\* made holds exactly the 2n messages of those sends, in send order.
C3_TranscriptIsTheSends ==
  \A s \in constructed : log[s].ok => chat_history(s) = log[s].sent

\* C4 as claimed: after a context-too-large failure and a successful retry
\* the session has a new handle whose replayed history is empty, the same
\* system instruction, and one retried provider call was made.
C4_RecoveryReplaysNothing ==
  (call.pc = "done" /\ call.trail = <<"context", "text">>) =>
     /\ chat_handle[call.self].id # call.failed_on
     /\ chat_handle[call.self].replayed = <<>>
     /\ system_instruction[call.self] = call.instruction
     /\ call.calls = 2

\* C4 as amended: the replayed history of the new handle holds no message of
\* the conversation: it is empty without a system instruction and is the one
\* system-instruction user message with one; the system instruction is the
\* same, and the original message went to the new handle exactly once.
C4_RecoveryReplaysInstructionOnly ==
  (call.pc = "done" /\ call.trail = <<"context", "text">>) =>
     /\ chat_handle[call.self].id # call.failed_on
     /\ chat_handle[call.self].replayed =
          IF call.instruction = NoInstruction
          THEN <<>>
          ELSE << [role |-> "user", parts |-> <<call.instruction>>] >>
     /\ system_instruction[call.self] = call.instruction
     /\ call.calls = 2
     /\ chat_handle[call.self].history =
          chat_handle[call.self].replayed
            \o << [role |-> "user", parts |-> BuildParts(call.q, call.context)],
                  [role |-> "model", parts |-> <<call.result.val>>] >>

C4_Witness ==
  /\ call.pc = "done"
  /\ call.trail = <<"context", "text">>
  /\ call.instruction # NoInstruction

\* C5: when the provider keeps answering with context-too-large, chat
\* restarts the session once and retries once, and no more.
C5_ContextRestartHappensOnce ==
  (\A i \in 1..Len(call.trail) : call.trail[i] = "context") => call.restarts <= 1

\* C7: a quota-exhausted failure of a chat send is retried on the fresh
\* handle; a failure is returned only if that retry failed too.
C7_QuotaFailureIsRetried ==
  (call.pc = "done" /\ call.trail # <<>> /\ call.trail[1] = "quota") =>
     call.calls >= 2

AuthErrors == {"DefaultCredentialsError", "RefreshError"}

\* The chat part of C8: a failure caught by the InvalidArgument clause
\* without the token-limit message, or by the general clause (where the
\* authentication errors land), ends chat at once: None, no sleep for it,
\* the handle kept.
ChatNeverRetries ==
  (call.trail # <<>> /\ LastOf(call.trail) \in {"invalid", "general"}) =>
     /\ call.pc = "done"
     /\ call.result = NoneResult
     /\ call.calls = Len(call.trail)
     /\ Len(call.slept) =
          Cardinality({i \in 1..Len(call.trail) : call.trail[i] \in {"quota", "deadline"}})
     /\ chat_handle[call.self].id = call.failed_on

\* The failing call of ask / ask_async is its last, and no sleep follows it.
AskEndsAtOnce ==
  /\ ask_pc = "done"
  /\ ask_result = NoneResult
  /\ sleeps = calls - 1

SendFailedIn(clauses) ==
  /\ call.pc = "send"
  /\ Len(call'.trail) = Len(call.trail) + 1
  /\ LastOf(call'.trail) \in clauses

\* C11: a failed chat send leaves the transcript as it was when the failure
\* is locally recoverable (network, service unavailable and unexpected
\* errors are caught by the general clause; an empty response), and leaves
\* it empty when the failure restarts the session (quota exhausted, context
\* too large); no failed send leaves a user message without its reply: the
\* transcript after it is the one before it, or empty.
C11_FailedSendAndTranscript ==
  [][ /\ SendFailedIn({"general", "empty"}) =>
           chat_history(call.self)' = chat_history(call.self)
      /\ SendFailedIn({"quota", "context"}) =>
           chat_history(call.self)' = <<>>
      /\ SendFailedIn(ChatFailureClauses) =>
           chat_history(call.self)' \in {chat_history(call.self), <<>>}
    ]_vars

C11_Witness ==
  /\ call.pc = "done"
  /\ call.trail = <<"context", "general">>
  /\ op.name = "chat"
  /\ chat_history(call.self) = <<>>
  /\ cls_chat_history # <<>>

\* The messages of a transcript that hold the instruction.
Occurrences(history, instruction) ==
  Cardinality({ i \in 1..Len(history) :
                  \E j \in 1..Len(history[i].parts) :
                     history[i].parts[j] = instruction })

\* The record at the path of the session's last save, when it can be read.
PersistedRecord(s) ==
  IF history_json_file[s] # DefaultPath /\ files[history_json_file[s]].state = "ok"
  THEN files[history_json_file[s]].data
  ELSE <<>>

\* C12: in every reachable state the configured system instruction appears
\* at most once in the history replayed into the provider handle, in the
\* in-memory transcript and in the persisted record of every session.
C12_InstructionAtMostOnce ==
  \A s \in constructed :
     system_instruction[s] # NoInstruction =>
        /\ Occurrences(chat_handle[s].replayed, system_instruction[s]) <= 1
        /\ Occurrences(chat_history(s), system_instruction[s]) <= 1
        /\ Occurrences(PersistedRecord(s), system_instruction[s]) <= 1

\* The record was saved under the given instruction: it holds no other one.
SavedUnder(record, instruction) ==
  \A x \in EarlierInstructions \ {NoInstruction, instruction} :
     Occurrences(record, x) = 0

\* C13: a record saved under a system instruction and loaded by a session
\* with the same instruction gives an in-memory transcript with the messages
\* of the record in their order; the one difference allowed is that a
\* leading system-instruction message of the record is removed.
C13_LoadGivesTheSavedTranscript ==
  ( /\ op.name = "load"
    /\ op.arg \in AllPaths
    /\ files[op.arg].state = "ok"
    /\ SavedUnder(files[op.arg].data, system_instruction[op.self]) ) =>
     LET record == files[op.arg].data
         loaded == chat_history(op.self)
     IN  \/ loaded = record
         \/ /\ record # <<>>
            /\ record[1] = UserMessage(<<system_instruction[op.self]>>)
            /\ loaded = Tail(record)

\* C14: clear_history returns normally and leaves the in-memory transcript
\* empty, after a first call and after a second call in a row, with a
\* history file on disk or without one.
C14_ClearLeavesEmptyTranscript ==
  op.name = "clear" => op.value /\ chat_history(op.self) = <<>>

\* A second call in a row, on a session that has saved a record.
C14_Witness ==
  /\ op.name = "clear"
  /\ op.after = "clear"
  /\ history_json_file[op.self] # DefaultPath
  /\ chat_history(op.self) = <<>>

\* This step is a call of clear_history.
ClearStep == op'.name = "clear" /\ store_ops' = store_ops + 1

\* C15: after clear_history the transcript is empty, the provider handle is
\* a newly created one and not the one in use before, the system
\* instruction is kept, and no history file of the session is left; also for
\* a session that has never saved.
C15_ClearRestartsAndDeletes ==
  [][ \A s \in Sessions :
        (ClearStep /\ op'.self = s) =>
            /\ chat_history(s)' = <<>>
            /\ chat_handle'[s].id # chat_handle[s].id
            /\ chat_handle'[s].id = next_handle
            /\ system_instruction'[s] = system_instruction[s]
            /\ \/ history_json_file'[s] = DefaultPath
               \/ files'[history_json_file'[s]] = Absent
    ]_vars

\* This step is a caller's start_new_chat_session.
ResetStep ==
  /\ call.pc = "idle"
  /\ op'.name = "reset"
  /\ next_handle' = next_handle + 1

\* C16: start_new_chat_session replaces the provider handle by a newly
\* created one that holds no message of the conversation, and leaves the
\* transcript empty; the system instruction afterwards is the one given, or
\* the previous one when none is given; the history records on disk and the
\* path of the session's record are as before.
C16_ResetEffect ==
  [][ \A s \in Sessions :
        (ResetStep /\ op'.self = s) =>
            /\ chat_handle'[s].id # chat_handle[s].id
            /\ chat_handle'[s].id = next_handle
            /\ chat_history(s)' = <<>>
            /\ chat_handle'[s].history = chat_handle'[s].replayed
            /\ \A i \in 1..Len(chat_handle'[s].replayed) :
                  /\ i = 1
                  /\ chat_handle'[s].replayed[i] = UserMessage(<<system_instruction'[s]>>)
            /\ system_instruction'[s] =
                 IF op'.arg # NoInstruction THEN op'.arg ELSE system_instruction[s]
            /\ files' = files
            /\ history_json_file' = history_json_file
    ]_vars

\* A reset without a new instruction, of a session that has an instruction
\* and a saved record.
C16_Witness ==
  /\ op.name = "reset"
  /\ op.arg = NoInstruction
  /\ system_instruction[op.self] # NoInstruction
  /\ history_json_file[op.self] # DefaultPath
  /\ files[history_json_file[op.self]].state = "ok"
  /\ chat_history(op.self) = <<>>

\* This step is a caller's _save_chat_history.
SaveStep == op'.name = "save" /\ store_ops' = store_ops + 1

\* C17: after a save the record file holds the complete new transcript or
\* exactly what it held before; a save returns true only when the file holds
\* the new transcript, and a save that returns false leaves a record that was
\* valid before as it was.
C17_SaveIsAtomic ==
  [][ \A s \in Sessions :
        (SaveStep /\ op'.self = s) =>
            /\ \/ files'[history_json_file'[s]] =
                    [state |-> "ok", data |-> chat_history(s)]
               \/ files'[history_json_file'[s]] = files[history_json_file'[s]]
            /\ op'.value =>
                 files'[history_json_file'[s]] =
                    [state |-> "ok", data |-> chat_history(s)]
            /\ ~op'.value =>
                 \A path \in AllPaths :
                    files[path].state = "ok" => files'[path] = files[path]
    ]_vars

\* This step is a caller's _load_chat_history.
LoadStep == op'.name = "load" /\ store_ops' = store_ops + 1

\* C18: a load whose file is missing ends with an empty transcript and a
\* newly created handle, and a load whose file cannot be decoded ends with an
\* empty transcript too.
C18_LoadOfBadFileGivesEmpty ==
  [][ \A s \in Sessions :
        (LoadStep /\ op'.self = s /\ op'.arg \in AllPaths) =>
            /\ files[op'.arg].state = "absent" =>
                 /\ chat_history(s)' = <<>>
                 /\ chat_handle'[s].id = next_handle
                 /\ chat_handle'[s].id # chat_handle[s].id
            /\ files[op'.arg].state = "corrupt" =>
                 chat_history(s)' = <<>>
    ]_vars

\* The session the step acts on: the one whose chat call is in flight, else
\* the one the operation entered in this step is called on.
ActsOn(s) == IF call.pc = "send" THEN call.self = s ELSE op'.self = s

\* C20: a step of an operation on one session (a send and its reply, a reset,
\* a load, a clear) leaves the transcript, the provider handle and the system
\* instruction of every other constructed session as they were.
C20_SessionsShareNothing ==
  [][ \A s \in Sessions, t \in Sessions :
        (s # t /\ t \in constructed /\ ActsOn(s)) =>
            /\ chat_history(t)' = chat_history(t)
            /\ chat_handle'[t] = chat_handle[t]
            /\ system_instruction'[t] = system_instruction[t]
    ]_vars

\* C19: at no time are two sends of chat in flight on one session.
C19_OneSendInFlight ==
  ~(/\ call.pc = "send"
    /\ rival.pc = "send"
    /\ call.self = rival.self)

\* This step is a cancellation leaving chat.
CancelStep ==
  /\ call.pc = "send"
  /\ call'.pc = "done"
  /\ call'.result = Cancelled

\* The transcript is a sequence of pairs: a user message, then a model reply.
Paired(history) ==
  /\ Len(history) % 2 = 0
  /\ \A i \in 1..Len(history) :
        history[i].role = IF i % 2 = 1 THEN "user" ELSE "model"

CrashStep == call.pc = "send" /\ call'.pc = "crashed"

C23_DistinctRecordPaths ==
  \A s \in constructed, t \in constructed :
     (/\ s # t
      /\ history_json_file[s] # DefaultPath
      /\ history_json_file[t] # DefaultPath) =>
         history_json_file[s] # history_json_file[t]

\* The labeled context part: the label, then the context strings in their
\* order with one newline between neighbours, then two newlines.
IsLabeledContext(part, context) ==
  /\ Len(part) = 2 * Len(context) + 3
  /\ part[1] = "Kontekst:"
  /\ part[2] = "nl"
  /\ \A j \in 1..Len(context) : part[2 * j + 1] = context[j]
  /\ \A j \in 1..(Len(context) - 1) : part[2 * j + 2] = "nl"
  /\ part[Len(part) - 1] = "nl"
  /\ part[Len(part)] = "nl"

\* C24: every build gives a sequence of parts: the labeled context part
\* first when there is a context, then the prompt, then the attached
\* resource as a part of its own; without context and resource the prompt
\* part alone; and every build from the same inputs gives the same sequence.
C24_PartsInFixedOrder ==
  \A i \in 1..Len(built) :
     /\ built[i].kind = "parts"
     /\ builder.fn = "chat" =>
          IF builder.context = NoContext
          THEN built[i].val = << <<builder.q>> >>
          ELSE /\ Len(built[i].val) = 2
               /\ IsLabeledContext(built[i].val[1], builder.context)
               /\ built[i].val[2] = <<builder.q>>
     /\ builder.fn = "describe_image" =>
          built[i].val =
             TextParts(builder.q) \o << [kind |-> "resource", val |-> builder.image] >>
     /\ \A j \in 1..Len(built) : built[j] = built[i]

\* What a chat call ended on, where that is a reply or one category of
\* failure: quota exhausted, invalid input, no response.
EndedOn == {"text", "quota", "invalid", "empty"}

\* C25: two chat calls that ended differently (one on a reply, or on
\* failures of different categories) returned different values.
C25_FailuresTellCategories ==
  (/\ call.pc = "done"
   /\ rival.pc = "done"
   /\ call.trail # <<>>
   /\ rival.trail # <<>>
   /\ LastOf(call.trail) \in EndedOn
   /\ LastOf(rival.trail) \in EndedOn
   /\ LastOf(call.trail) # LastOf(rival.trail)) =>
      call.result # rival.result

\* C26: no provider call of a provider that takes an API key was made while
\* no key was configured: every send or ask of that time was refused.
C26_NoKeyNoRequest ==
  \A i \in 1..Len(provider_calls) :
     provider_calls[i].provider \in {"gemini", "openai"} =>
        provider_calls[i].key # NoKey

\* The record files in the history directory, and the sessions that have
\* saved.
RecordFiles == { path \in FilePaths : files[path].state # "absent" }
Savers == { s \in constructed : history_json_file[s] # DefaultPath }

\* C27: the history directory holds at most one record file for each session
\* that has saved, and after clear_history of the only session it holds
\* none.
C27_OneRecordPerSession ==
  /\ Cardinality(RecordFiles) <= Cardinality(Savers)
  /\ (op.name = "clear" /\ constructed = {op.self}) => RecordFiles = {}

\* C28: while a backoff sleep is in progress, a send on another session and
\* the handling of a host event can both take place.
C28_BackoffIsCooperative ==
  (sleeper # NoSleeper /\ handled < MaxThreadEvents
                       /\ other_sends < MaxThreadEvents)
    => (ENABLED OtherSend /\ ENABLED HostEvent)

\* The attempt limit of a retrying category.
CategoryLimit(clause) ==
  CASE clause = "network" -> NETWORK_ERROR_MAX_ATTEMPTS
    [] clause = "service" -> SERVICE_UNAVAILABLE_MAX_ATTEMPTS
    [] OTHER -> INVALID_INPUT_MAX_ATTEMPTS

\* C29: ask gives up in a category only when the failures of that same
\* category before the last one have reached the category's limit; the
\* failures of other categories do not count.
C29_LimitsPerCategory ==
  (ask_mode = "ask" /\ ask_pc = "done" /\ ask_exit = "break") =>
    failures[AskClause(last_outcome)] - 1
      >= CategoryLimit(AskClause(last_outcome))

\* A step of one of the session's own operations.
SessionOperationStep ==
  op'.name \in {"construct", "chat", "reset", "clear", "load"}

\* C30: the transcript of a session changes only in a step of one of the
\* session's own operations (send, reset, clear, load); no handler of the
\* dialog changes it.
C30_OnlySessionOperationsTouchTranscript ==
  [][\A s \in Sessions :
       chat_history(s)' # chat_history(s) => SessionOperationStep]_vars

\* One iteration of the loop of ask / ask_async: a provider call is made.
AttemptStep == ask_pc = "loop" /\ calls' = calls + 1

C32_TranscriptAlternates ==
  \A s \in constructed : Paired(chat_history(s))

\* A history without the first message when that message is the system
\* instruction sent as a user message.
WithoutInstruction(history, instruction) ==
  IF /\ instruction # NoInstruction
     /\ history # <<>>
     /\ history[1] = UserMessage(<<instruction>>)
  THEN Tail(history)
  ELSE history

\* The handle of the session was created with a history to replay.
HasReplayed(s) ==
  WithoutInstruction(chat_handle[s].replayed, system_instruction[s]) # <<>>

\* C33: once a handle has been created with a replayed history, the
\* transcript of the session is what the handle holds (the replayed messages
\* and the exchanges sent through it since) without the system instruction.
C33_TranscriptFollowsHandle ==
  \A s \in constructed :
    (own_chat_history[s].own /\ HasReplayed(s)) =>
      chat_history(s) =
        WithoutInstruction(chat_handle[s].history, system_instruction[s])

\* A step of ask / ask_async, or a call of describe_image.
StatelessStep ==
  \/ ask_pc' # ask_pc
  \/ calls' # calls
  \/ built' # built

\* What a session holds: transcript, handle, instruction, record path.
SessionState(s) ==
  << chat_history(s), chat_handle[s], system_instruction[s],
     history_json_file[s] >>

\* C34: every step of ask, ask_async and describe_image, whatever the
\* provider does, leaves the transcript, the provider handle, the system
\* instruction and the history files of every session as they were.
C34_StatelessCallsKeepSession ==
  [][StatelessStep =>
       /\ \A s \in Sessions : SessionState(s)' = SessionState(s)
       /\ files' = files]_vars

C34_Witness ==
  /\ ask_pc = "done"
  /\ ask_exit = "exhausted"
  /\ calls = MaxFrameAttempts
  /\ \E s \in constructed :
        /\ Len(chat_history(s)) = 2 * MaxSends
        /\ Len(chat_handle[s].history) > 0
        /\ history_json_file[s] # DefaultPath
        /\ files[history_json_file[s]].state = "ok"

\* C35: whatever the provider answers, ask and ask_async make at most
\* `attempts` provider calls, and a call that has entered its loop returns.
C35_AskIsBounded ==
  /\ [](calls <= attempts)
  /\ (ask_pc = "loop") ~> (ask_pc = "done")

C35_Witness ==
  /\ ask_pc = "done"
  /\ attempts = MaxAttempts
  /\ calls = attempts
  /\ failures["empty"] > 0
  /\ failures["network"] > 0
  /\ failures["service"] > 0
  /\ failures["input"] > 0

\* C36: the timeout recovery of chat has a limit of its own: a call whose
\* provider keeps timing out stops retrying at some depth below the depth
\* explored here, and so returns after a bounded number of provider calls.
C36_TimeoutRecoveryIsLimited ==
  ( /\ call.trail # <<>>
    /\ \A i \in 1..Len(call.trail) : call.trail[i] = "deadline" ) =>
     call.depth < MaxDepth

\* C37: ask and ask_async do not sleep after their last provider call: when
\* the call has ended, every sleep it took was followed by a provider call.
C37_NoSleepAfterLastCall ==
  (ask_pc = "done" /\ calls > 0) => sleeps < calls

\* The images other than the one a handler was run for.
OtherImages == { i \in Images : i # proj_op'.image }

\* C38: project.json keeps every link and unlink made through any module:
\* a link or unlink by one module changes the stored link of its image
\* alone, whatever the others stored before, and every imported module
\* holds the links that are stored.
C38_NoLinkIsLost ==
  /\ [](\A m \in Modules : project_data[m].loaded => project_data[m].links = project_json)
  /\ [][(proj_op'.name \in {"link", "unlink"}) =>
          \A i \in OtherImages : project_json'[i] = project_json[i]]_vars

\* C39: no stored link refers to a text file that has been deleted; a delete
\* through a content manager changes the stored links only when the file
\* was removed, then leaves no link to that file, and leaves the links to
\* other files as they were.
C39_DeleteUnlinksExactly ==
  /\ [](\A i \in Images :
          project_json[i] # NoLink => project_json[i] \in text_files)
  /\ [][(proj_op'.name = "delete") =>
          /\ project_json' # project_json => proj_op'.removed
          /\ proj_op'.removed =>
                \A i \in Images : project_json'[i] # proj_op'.text
          /\ \A i \in Images :
                project_json[i] # proj_op'.text =>
                  project_json'[i] = project_json[i]]_vars

====
